---- MODULE Spec2Model ----
(***************************************************************************)
(* EDSR encoder (models/edsr.py): construction of the network, the named   *)
(* builders, the forward pass as a shape computation, and the weight       *)
(* importer load_state_dict.                                               *)
(*                                                                         *)
(* A tensor is [shape, val]: its size and an abstract content. A freshly   *)
(* initialised convolution parameter has content <<0>>, a checkpoint       *)
(* tensor has content <<1>>, the mean-shift weight holds its diagonal and  *)
(* the mean-shift bias its three values in units of 1e-4.                  *)
(*                                                                         *)
(* Spec follows a network through construction and weight import. The      *)
(* forward pass reads args only and changes nothing; it is followed in     *)
(* SpecForward, from every network that construction returns when no       *)
(* checkpoint file is present.                                             *)
(***************************************************************************)
EXTENDS Integers, Sequences, FiniteSets, TLC

VARIABLES pc, obj, args, own, out_dim, edsr_out_dim, exc, log, call, result, disk

vars == <<pc, obj, args, own, out_dim, edsr_out_dim, exc, log, call, result, disk>>

(***************************************************************************)
(* Bounds of the model.                                                    *)
(***************************************************************************)
MaxScale == 8
MaxCkptLen == 2
MaxSide == 2

(***************************************************************************)
(* Program constants.                                                      *)
(***************************************************************************)
kernel_size == 3
n_colors == 3

None == "None"
NoExc == "NoExc"

(***************************************************************************)
(* Python helpers.                                                         *)
(***************************************************************************)
\* str.find(sub): lowest 0-based index of sub in s, -1 when absent
Find(s, sub) ==
    LET hits == {i \in 1..(Len(s) - Len(sub) + 1) : SubSeq(s, i, i + Len(sub) - 1) = sub}
    IN  IF hits = {} THEN -1
        ELSE (CHOOSE i \in hits : \A j \in hits : i <= j) - 1

\* a & b on non-negative integers
RECURSIVE BitAnd(_, _)
BitAnd(a, b) ==
    IF a = 0 \/ b = 0 THEN 0
    ELSE (IF a % 2 = 1 /\ b % 2 = 1 THEN 1 ELSE 0) + 2 * BitAnd(a \div 2, b \div 2)

\* scale & (scale - 1); scale - 1 is -1 (all bits set) when scale = 0
AndPred(scale) == IF scale = 0 THEN 0 ELSE BitAnd(scale, scale - 1)

\* int(math.log(scale, 2)) for scale >= 1
RECURSIVE IntLog2(_)
IntLog2(scale) == IF scale <= 1 THEN 0 ELSE 1 + IntLog2(scale \div 2)

(***************************************************************************)
(* Layers. A layer is a record; a stage is a sequence of layers.           *)
(***************************************************************************)
\* default_conv without the padding argument
default_conv_unpadded(in_channels, out_channels, ksize) ==
    [op |-> "conv", cin |-> in_channels, cout |-> out_channels,
     k |-> ksize, padding |-> 0, r |-> 0]

\* default_conv: nn.Conv2d(..., padding=kernel_size // 2)
default_conv(in_channels, out_channels, ksize) ==
    [op |-> "conv", cin |-> in_channels, cout |-> out_channels,
     k |-> ksize, padding |-> ksize \div 2, r |-> 0]

ReLU == [op |-> "relu", cin |-> 0, cout |-> 0, k |-> 0, padding |-> 0, r |-> 0]

PixelShuffle(factor) ==
    [op |-> "shuffle", cin |-> 0, cout |-> 0, k |-> 0, padding |-> 0, r |-> factor]

\* ResBlock with bn=False: body = conv, act, conv
ResBlock(n_feats, ksize) ==
    [op |-> "resblock", cin |-> n_feats, cout |-> n_feats,
     k |-> ksize, padding |-> ksize \div 2, r |-> 0]

ResBlockBody(l) ==
    << default_conv(l.cin, l.cout, l.k), ReLU, default_conv(l.cin, l.cout, l.k) >>

RECURSIVE Repeat(_, _)
Repeat(stage, n) == IF n <= 0 THEN <<>> ELSE stage \o Repeat(stage, n - 1)

\* Upsampler(conv, scale, n_feats, act=False): the stage, or the exception raised
Upsampler(scale, n_feats) ==
    IF AndPred(scale) = 0
    THEN IF scale = 0
         THEN [exc |-> "ValueError", m |-> <<>>]
         ELSE [exc |-> NoExc,
               m |-> Repeat(<< default_conv(n_feats, 4 * n_feats, 3), PixelShuffle(2) >>,
                            IntLog2(scale))]
    ELSE IF scale = 3
         THEN [exc |-> NoExc,
               m |-> << default_conv(n_feats, 9 * n_feats, 3), PixelShuffle(3) >>]
         ELSE [exc |-> "NotImplementedError", m |-> <<>>]

(***************************************************************************)
(* Tensors and parameter mappings.                                         *)
(***************************************************************************)
Tensor(shape, val) == [shape |-> shape, val |-> val]

\* content of a freshly initialised convolution parameter
FreshVal == <<0>>

\* the parameter mapping with no entry
EmptyMapping == [n \in {} |-> Tensor(<<>>, <<>>)]

\* a submodule's name under its parent: <prefix>.<name>, <name> at the root
Child(prefix, name) == IF prefix = "" THEN name ELSE prefix \o "." \o name

\* weight and bias of a convolution layer named p
ConvParams(p, l) ==
    (Child(p, "weight") :> Tensor(<<l.cout, l.cin, l.k, l.k>>, FreshVal))
        @@ (Child(p, "bias") :> Tensor(<<l.cout>>, FreshVal))

\* the entries a stage contributes to state_dict(), from member j on, named
\* as nn.Sequential names them: <prefix>.<index>.weight / .bias
RECURSIVE StageParams(_, _, _)
StageParams(prefix, stage, j) ==
    IF j > Len(stage) THEN EmptyMapping
    ELSE LET l == stage[j]
             p == Child(prefix, ToString(j - 1))
             here == CASE l.op = "conv" -> ConvParams(p, l)
                       [] l.op = "resblock" ->
                            StageParams(Child(p, "body"), ResBlockBody(l), 1)
                       [] OTHER -> EmptyMapping
         IN  here @@ StageParams(prefix, stage, j + 1)

\* MeanShift(rgb_range, sign=...): a frozen 1x1 convolution, 3 -> 3 channels
rgb_mean == <<4488, 4371, 4040>>
rgb_std == <<1, 1, 1>>

MeanShift(prefix, rgb_range, sign) ==
    (Child(prefix, "weight") :>
        Tensor(<<3, 3, 1, 1>>, [i \in 1..3 |-> 1 \div rgb_std[i]]))
    @@ (Child(prefix, "bias") :>
        Tensor(<<3>>, [i \in 1..3 |-> (sign * rgb_range * rgb_mean[i]) \div rgb_std[i]]))

(***************************************************************************)
(* EDSR.__init__, the module construction part (lines 85-119).             *)
(***************************************************************************)
m_head(a) == << default_conv(a.n_colors, a.n_feats, kernel_size) >>

m_body(a) ==
    Repeat(<< ResBlock(a.n_feats, kernel_size) >>, a.n_resblocks)
        \o << default_conv(a.n_feats, a.n_feats, kernel_size) >>

\* the tail is a Sequential of two members: the Upsampler and a convolution
TailUp(a) == Upsampler(a.scale[1], a.n_feats)

TailConv(a) == default_conv(a.n_feats, a.n_colors, kernel_size)

TailParams(a) ==
    StageParams("tail.0", TailUp(a).m, 1) @@ ConvParams("tail.1", TailConv(a))

\* self.out_dim as EDSR.__init__ sets it
EdsrOutDim(a) == IF a.no_upsampling THEN a.n_feats ELSE a.n_colors

\* the tail built in either mode
BuildExcAnyMode(a) == Upsampler(a.scale[1], a.n_feats).exc

\* the exception raised while the modules are built, NoExc when none
BuildExc(a) == IF a.no_upsampling THEN NoExc ELSE TailUp(a).exc

\* state_dict() right after the modules are built
FreshState(a) ==
    StageParams("head", m_head(a), 1)
        @@ StageParams("body", m_body(a), 1)
        @@ (IF a.no_upsampling THEN EmptyMapping ELSE TailParams(a))
        @@ MeanShift("sub_mean", a.rgb_range, -1)
        @@ MeanShift("add_mean", a.rgb_range, 1)

(***************************************************************************)
(* EDSR.load_state_dict (lines 142-159).                                   *)
(***************************************************************************)
\* Tensor.copy_(src): src is broadcast to the size of self; RuntimeError
\* when it cannot be
Broadcastable(src, dst) ==
    /\ Len(src) <= Len(dst)
    /\ \A i \in 1..Len(src) :
          LET s == src[Len(src) - i + 1]
              d == dst[Len(dst) - i + 1]
          IN  s = d \/ s = 1

copy_(self, src) ==
    IF Broadcastable(src.shape, self.shape)
    THEN [exc |-> NoExc, t |-> Tensor(self.shape, src.val)]
    ELSE [exc |-> "RuntimeError", t |-> self]

\* the tail test on the start of the name only
NotTailPrefix(name) == ~(Len(name) >= 4 /\ SubSeq(name, 1, 4) = "tail")

\* name.find('tail') == -1
NotTail(name) == Find(name, "tail") = -1

\* the loop over state_dict.items(), from entry i on
RECURSIVE LoadFrom(_, _, _, _)
LoadFrom(own_state, state_dict, strict, i) ==
    IF i > Len(state_dict) THEN [exc |-> NoExc, own |-> own_state]
    ELSE LET name == state_dict[i].name
             param == state_dict[i].t
         IN  IF name \in DOMAIN own_state
             THEN LET c == copy_(own_state[name], param)
                  IN  IF c.exc = NoExc
                      THEN LoadFrom([own_state EXCEPT ![name] = c.t], state_dict, strict, i + 1)
                      ELSE IF NotTail(name)
                           THEN [exc |-> "RuntimeError", own |-> own_state]
                           ELSE LoadFrom(own_state, state_dict, strict, i + 1)
             ELSE IF strict /\ NotTail(name)
                  THEN [exc |-> "KeyError", own |-> own_state]
                  ELSE LoadFrom(own_state, state_dict, strict, i + 1)

load_state_dict(own_state, state_dict, strict) == LoadFrom(own_state, state_dict, strict, 1)

(***************************************************************************)
(* Forward pass, on sizes: an activation is [c, h, w] (one batch element). *)
(***************************************************************************)
Act(c, h, w) == [c |-> c, h |-> h, w |-> w]

NoAct == Act(0, 0, 0)

RECURSIVE ApplyStage(_, _, _)

\* nn.Conv2d with stride 1: the side grows by 2*padding and shrinks by k-1
Conv2d(l, x) ==
    LET h == x.h + 2 * l.padding - (l.k - 1)
        w == x.w + 2 * l.padding - (l.k - 1)
    IN  IF x.c # l.cin \/ h < 1 \/ w < 1
        THEN [exc |-> "RuntimeError", x |-> x]
        ELSE [exc |-> NoExc, x |-> Act(l.cout, h, w)]

\* nn.PixelShuffle(r): r*r channels become an r by r block of pixels
Shuffle(l, x) ==
    IF x.c % (l.r * l.r) # 0
    THEN [exc |-> "RuntimeError", x |-> x]
    ELSE [exc |-> NoExc, x |-> Act(x.c \div (l.r * l.r), x.h * l.r, x.w * l.r)]

\* ResBlock.forward: res = self.body(x).mul(res_scale); res += x
ResBlockForward(l, x) ==
    LET res == ApplyStage(ResBlockBody(l), x, 1)
    IN  IF res.exc # NoExc THEN res
        ELSE IF Broadcastable(<<x.c, x.h, x.w>>, <<res.x.c, res.x.h, res.x.w>>)
             THEN res
             ELSE [exc |-> "RuntimeError", x |-> x]

ApplyLayer(l, x) ==
    CASE l.op = "conv" -> Conv2d(l, x)
      [] l.op = "shuffle" -> Shuffle(l, x)
      [] l.op = "resblock" -> ResBlockForward(l, x)
      [] OTHER -> [exc |-> NoExc, x |-> x]

ApplyStage(stage, x, j) ==
    IF j > Len(stage) THEN [exc |-> NoExc, x |-> x]
    ELSE LET y == ApplyLayer(stage[j], x)
         IN  IF y.exc # NoExc THEN y ELSE ApplyStage(stage, y.x, j + 1)

\* EDSR.forward
forward(a, x) ==
    LET h == ApplyStage(m_head(a), x, 1)
    IN  IF h.exc # NoExc THEN h
        ELSE LET res == ApplyStage(m_body(a), h.x, 1)
             IN  IF res.exc # NoExc THEN res
                 ELSE IF ~Broadcastable(<<h.x.c, h.x.h, h.x.w>>,
                                        <<res.x.c, res.x.h, res.x.w>>)
                      THEN [exc |-> "RuntimeError", x |-> x]
                      ELSE IF a.no_upsampling THEN res
                           ELSE ApplyStage(TailUp(a).m \o << TailConv(a) >>, res.x, 1)

(***************************************************************************)
(* EDSR.__init__ as a whole: modules, then the optional weight import.     *)
(* fresh is state_dict() once the modules are built, FreshState(a); file  *)
(* is what torch.load finds at args.pretrained_path.                       *)
(***************************************************************************)
\* the constructor without the except RuntimeError clause
EdsrInitNoCatch(a, fresh, file) ==
    IF BuildExc(a) # NoExc
    THEN [exc |-> BuildExc(a), own |-> EmptyMapping, log |-> ""]
    ELSE IF a.pretrained_path = None
         THEN [exc |-> NoExc, own |-> fresh, log |-> ""]
         ELSE IF ~file.found
              THEN [exc |-> NoExc, own |-> fresh, log |-> "File not found"]
              ELSE LET r == load_state_dict(fresh, file.sd, TRUE)
                   IN  IF r.exc = NoExc
                       THEN [exc |-> NoExc, own |-> r.own,
                             log |-> "Pretrained model loaded successfully."]
                       ELSE [exc |-> r.exc, own |-> EmptyMapping, log |-> ""]

EdsrInit(a, fresh, file) ==
    IF BuildExc(a) # NoExc
    THEN [exc |-> BuildExc(a), own |-> EmptyMapping, log |-> ""]
    ELSE IF a.pretrained_path = None
         THEN [exc |-> NoExc, own |-> fresh, log |-> ""]
         ELSE IF ~file.found
              THEN [exc |-> NoExc, own |-> fresh,
                    log |-> "File not found"]
              ELSE LET r == load_state_dict(fresh, file.sd, TRUE)
                   IN  CASE r.exc = NoExc ->
                              [exc |-> NoExc, own |-> r.own,
                               log |-> "Pretrained model loaded successfully."]
                         [] r.exc = "RuntimeError" ->
                              [exc |-> NoExc, own |-> r.own,
                               log |-> "Error loading model"]
                         [] OTHER ->
                              [exc |-> r.exc, own |-> EmptyMapping, log |-> ""]

(***************************************************************************)
(* The builders' checkpoint table and key (lines 177-189, 204-216).        *)
(***************************************************************************)
url ==
    [ k \in {"r16f64x2", "r16f64x3", "r16f64x4", "r32f256x2", "r32f256x3", "r32f256x4"} |->
        CASE k = "r16f64x2" -> "models/weights/edsr_baseline_x2-1bc95232.pt"
          [] k = "r16f64x3" -> "models/weights/edsr_baseline_x3-abf2a44e.pt"
          [] k = "r16f64x4" -> "models/weights/edsr_baseline_x4-6b446fab.pt"
          [] k = "r32f256x2" -> "models/weights/edsr_x2-0edfb8a3.pt"
          [] k = "r32f256x3" -> "models/weights/edsr_x3-ea3ef2c6.pt"
          [] OTHER -> "models/weights/edsr_x4-4f62e9ef.pt" ]

url_name(n_resblocks, n_feats, scale) ==
    "r" \o ToString(n_resblocks) \o "f" \o ToString(n_feats) \o "x" \o ToString(scale)

ResolveUrl(n_resblocks, n_feats, scale) ==
    IF url_name(n_resblocks, n_feats, scale) \in DOMAIN url
    THEN url[url_name(n_resblocks, n_feats, scale)]
    ELSE None

\* the Namespace the builders fill in; res_scale in tenths
Namespace(n_resblocks, n_feats, res_scale, scale, no_upsampling, rgb_range, path) ==
    [n_resblocks |-> n_resblocks, n_feats |-> n_feats, res_scale |-> res_scale,
     scale |-> <<scale>>, no_upsampling |-> no_upsampling, rgb_range |-> rgb_range,
     n_colors |-> n_colors, pretrained_path |-> path]

\* Encoder.__init__ takes (self, args): the number of positional arguments
\* it accepts besides self
EncoderArity == 1

\* Encoder(*positional): TypeError unless exactly EncoderArity arguments
EncoderInit(a, npositional, fresh, file) ==
    IF npositional # EncoderArity
    THEN [exc |-> "TypeError", own |-> EmptyMapping, log |-> "",
          out_dim |-> 0, edsr_out_dim |-> 0]
    ELSE LET e == EdsrInit(a, fresh, file)
         IN  [exc |-> e.exc, own |-> e.own, log |-> e.log,
              out_dim |-> IF e.exc = NoExc THEN a.n_feats ELSE 0,
              edsr_out_dim |-> IF e.exc = NoExc THEN EdsrOutDim(a) ELSE 0]

(***************************************************************************)
(* Inputs.                                                                 *)
(***************************************************************************)
\* (n_resblocks, n_feats) pairs the callers pass
BlockFeats == { <<16, 64>>, <<32, 256>> }

Scales == 0..MaxScale

RgbRanges == {1, 255}

\* checkpoint entries: a name with the sizes a checkpoint may hold for it
CkptShapes ==
    [ n \in {"head.0.weight", "tail.1.bias", "sub_mean.bias", "extra.weight",
             "detail.0.weight"} |->
        CASE n = "head.0.weight" -> { <<64, 3, 3, 3>>, <<1, 3, 3, 3>> }
          [] n = "tail.1.bias" -> { <<3>>, <<1>>, <<4>> }
          [] OTHER -> { <<3>> } ]

CkptVal == <<1>>

CkptEntries ==
    UNION { { [name |-> n, t |-> Tensor(sh, CkptVal)] : sh \in CkptShapes[n] }
            : n \in DOMAIN CkptShapes }

\* a checkpoint is a dict: its items in iteration order, no name twice
Checkpoints ==
    UNION { { sd \in [1..len -> CkptEntries] :
                \A i, j \in 1..len : i # j => sd[i].name # sd[j].name }
            : len \in 0..MaxCkptLen }

\* the checkpoint file: not looked at yet, missing, or holding a checkpoint
Unread == [known |-> FALSE, found |-> FALSE, sd |-> <<>>]

Missing == [known |-> TRUE, found |-> FALSE, sd |-> <<>>]

Files == { [known |-> TRUE, found |-> TRUE, sd |-> sd] : sd \in Checkpoints }

\* what torch.load may find: the file as it is known, any file otherwise
Readable == IF disk.known THEN { disk } ELSE { Missing } \cup Files

\* torch.load is reached only when the modules were built and a path is set
Loads(a) == BuildExc(a) = NoExc /\ a.pretrained_path # None

\* image sides: the small ones, and the 48 of the module's own example
Sides == (1..MaxSide) \cup {48}

Images == { Act(c, h, w) : c \in {1, n_colors}, h \in Sides, w \in Sides }

NoArgs == Namespace(0, 0, 0, 0, FALSE, 0, None)

\* the fields of args the modules are built from, and the values they take
Arch(a) == <<a.n_resblocks, a.n_feats, a.scale[1], a.no_upsampling, a.rgb_range>>

Archs == { <<bf[1], bf[2], scale, no_upsampling, rgb_range>> :
             bf \in BlockFeats, scale \in Scales, no_upsampling \in BOOLEAN,
             rgb_range \in RgbRanges }

ArchArgs(k) == Namespace(k[1], k[2], 0, k[3], k[4], k[5], None)

\* FreshState and forward, tabulated once for every architecture
FreshStates == [k \in Archs |-> FreshState(ArchArgs(k))]

Forwards == [k \in Archs |-> [x \in Images |-> forward(ArchArgs(k), x)]]

Call(op, strict, x) == [op |-> op, strict |-> strict, x |-> x]

(***************************************************************************)
(* State machine.                                                          *)
(***************************************************************************)
Init ==
    /\ pc = "start"
    /\ obj = "none"
    /\ args = NoArgs
    /\ own = EmptyMapping
    /\ out_dim = 0
    /\ edsr_out_dim = 0
    /\ exc = NoExc
    /\ log = ""
    /\ call = Call("none", FALSE, NoAct)
    /\ result = NoAct
    /\ disk = Unread

\* Upsampler(conv, scale, n_feats) constructed on its own
UpsamplerInit ==
    /\ pc = "start"
    /\ \E scale \in Scales, bf \in BlockFeats :
          LET u == Upsampler(scale, bf[2])
          IN  /\ pc' = IF u.exc = NoExc THEN "built" ELSE "raised"
              /\ obj' = IF u.exc = NoExc THEN "Upsampler" ELSE "none"
              /\ args' = Namespace(0, bf[2], 0, scale, FALSE, 0, None)
              /\ own' = StageParams("", u.m, 1)
              /\ exc' = u.exc
              /\ call' = Call("Upsampler", FALSE, NoAct)
    /\ UNCHANGED <<out_dim, edsr_out_dim, log, result, disk>>

\* the state a constructor call leaves: e is what EncoderInit returns
Constructed(op, kind, a, d, e) ==
    /\ pc' = IF e.exc = NoExc THEN "built" ELSE "raised"
    /\ obj' = IF e.exc = NoExc THEN kind ELSE "none"
    /\ args' = a
    /\ own' = e.own
    /\ out_dim' = e.out_dim
    /\ edsr_out_dim' = e.edsr_out_dim
    /\ exc' = e.exc
    /\ log' = e.log
    /\ call' = Call(op, TRUE, NoAct)
    /\ disk' = d
    /\ UNCHANGED result

\* EDSR(args)
EDSRInit ==
    /\ pc = "start"
    /\ \E bf \in BlockFeats, scale \in Scales, no_upsampling \in BOOLEAN,
          rgb_range \in RgbRanges, path \in {None, "custom.pt"} :
          LET a == Namespace(bf[1], bf[2], 10, scale, no_upsampling, rgb_range, path)
              fresh == FreshStates[Arch(a)]
          IN  \E d \in IF Loads(a) THEN Readable ELSE { disk } :
                LET e == EdsrInit(a, fresh, d)
                IN  Constructed("EDSR", "EDSR", a, d,
                                [exc |-> e.exc, own |-> e.own, log |-> e.log,
                                 out_dim |-> IF e.exc = NoExc THEN EdsrOutDim(a) ELSE 0,
                                 edsr_out_dim |-> IF e.exc = NoExc THEN EdsrOutDim(a) ELSE 0])

\* make_encoder_baseline(...): return Encoder(args)
MakeEncoderBaseline ==
    /\ pc = "start"
    /\ \E bf \in BlockFeats, scale \in Scales, no_upsampling \in BOOLEAN,
          rgb_range \in RgbRanges :
          LET a == Namespace(bf[1], bf[2], 10, scale, no_upsampling, rgb_range,
                             ResolveUrl(bf[1], bf[2], scale))
              fresh == FreshStates[Arch(a)]
          IN  \E d \in IF Loads(a) THEN Readable ELSE { disk } :
                Constructed("make_encoder_baseline", "Encoder", a, d,
                            EncoderInit(a, 1, fresh, d))

\* make_encoder_large(...): return Encoder(args, n_class)
MakeEncoderLarge ==
    /\ pc = "start"
    /\ \E bf \in BlockFeats, scale \in Scales, no_upsampling \in BOOLEAN,
          rgb_range \in RgbRanges :
          LET a == Namespace(bf[1], bf[2], 1, scale, no_upsampling, rgb_range,
                             ResolveUrl(bf[1], bf[2], scale))
              fresh == FreshStates[Arch(a)]
          IN  \E d \in IF Loads(a) /\ 2 = EncoderArity THEN Readable ELSE { disk } :
                Constructed("make_encoder_large", "Encoder", a, d,
                            EncoderInit(a, 2, fresh, d))

\* load_state_dict(state_dict, strict) called on the constructed network
\* (on network.edsr when the network is an Encoder), with the checkpoint
\* the file holds
LoadStateDict ==
    /\ pc = "built"
    /\ obj \in {"EDSR", "Encoder"}
    /\ \E d \in { f \in Readable : f.found }, strict \in BOOLEAN :
          LET r == load_state_dict(own, d.sd, strict)
          IN  /\ own' = r.own
              /\ exc' = r.exc
              /\ call' = Call("load_state_dict", strict, NoAct)
              /\ disk' = d
    /\ UNCHANGED <<pc, obj, args, out_dim, edsr_out_dim, log, result>>

\* network(x): Encoder.forward hands x to EDSR.forward
Forward ==
    /\ pc = "built"
    /\ obj \in {"EDSR", "Encoder"}
    /\ \E x \in Images :
          LET y == Forwards[Arch(args)][x]
          IN  /\ result' = IF y.exc = NoExc THEN y.x ELSE NoAct
              /\ exc' = y.exc
              /\ call' = Call("forward", FALSE, x)
    /\ UNCHANGED <<pc, obj, args, own, out_dim, edsr_out_dim, log, disk>>

Next ==
    \/ UpsamplerInit
    \/ EDSRInit
    \/ MakeEncoderBaseline
    \/ MakeEncoderLarge
    \/ LoadStateDict

Spec == Init /\ [][Next]_vars

\* the networks that exist when no checkpoint file is present, for the
\* forward pass: every EDSR(args) and make_encoder_baseline(...) that returns
InitForward ==
    /\ \E bf \in BlockFeats, scale \in Scales, no_upsampling \in BOOLEAN,
          rgb_range \in RgbRanges, kind \in {"EDSR", "Encoder"} :
          LET a == Namespace(bf[1], bf[2], 10, scale, no_upsampling, rgb_range,
                             IF kind = "EDSR" THEN None ELSE ResolveUrl(bf[1], bf[2], scale))
              e == EncoderInit(a, 1, FreshStates[Arch(a)], Missing)
          IN  /\ e.exc = NoExc
              /\ pc = "built"
              /\ obj = kind
              /\ args = a
              /\ own = e.own
              /\ out_dim = IF kind = "EDSR" THEN EdsrOutDim(a) ELSE e.out_dim
              /\ edsr_out_dim = e.edsr_out_dim
              /\ log = e.log
              /\ call = Call(IF kind = "EDSR" THEN "EDSR" ELSE "make_encoder_baseline",
                             TRUE, NoAct)
              /\ disk = IF Loads(a) THEN Missing ELSE Unread
    /\ exc = NoExc
    /\ result = NoAct

NextForward == Forward

SpecForward == InitForward /\ [][NextForward]_vars

(***************************************************************************)
(* Vocabulary of the claims.                                               *)
(***************************************************************************)
\* the last call constructed the core network (directly or through the
\* baseline builder, which hands its arguments on unchanged)
IsCtor == call.op \in {"EDSR", "make_encoder_baseline"}

IsLoad == call.op = "load_state_dict"

\* the name-prefix test for the tail stage
StartsWithTail(name) == Len(name) >= 4 /\ SubSeq(name, 1, 4) = "tail"

\* the substring test for the tail stage
ContainsTail(name) ==
    \E i \in 1..(Len(name) - 3) : SubSeq(name, i, i + 3) = "tail"

\* a power of two, or exactly 3
Supported(scale) == scale = 3 \/ \E k \in 0..MaxScale : scale = 2 ^ k

\* the parameter mapping the network had when its modules were built
Fresh == FreshStates[Arch(args)]

\* the checkpoint the last import worked on
Sd == disk.sd

MeanShiftNames == {"sub_mean.weight", "sub_mean.bias", "add_mean.weight", "add_mean.bias"}

(***************************************************************************)
(* C1. With a checkpoint identifier configured, a missing checkpoint file  *)
(* never aborts construction, and every error the weight import raises (a  *)
(* shape mismatch on a parameter outside the tail, an unexpected key       *)
(* outside the tail under the constructor's strict import) propagates out  *)
(* of the constructor: it is not caught and logged.                        *)
(***************************************************************************)
C1_Propagation ==
    (IsCtor /\ args.pretrained_path # None /\ BuildExc(args) = NoExc) =>
        /\ ~disk.found => pc = "built"
        /\ (disk.found /\ load_state_dict(Fresh, Sd, TRUE).exc # NoExc)
              => (pc = "raised" /\ log # "Error loading model")

(***************************************************************************)
(* C2. The mean-shift parameters of a constructed network always equal the *)
(* values MeanShift.__init__ gave them, whatever checkpoint was imported.  *)
(***************************************************************************)
C2_MeanShiftFixed ==
    (pc = "built" /\ obj \in {"EDSR", "Encoder"}) =>
        \A n \in MeanShiftNames :
            own[n] = (MeanShift("sub_mean", args.rgb_range, -1)
                        @@ MeanShift("add_mean", args.rgb_range, 1))[n]

(***************************************************************************)
(* C3. Both builders, for every argument combination with a supported      *)
(* scale, return a constructed network whose checkpoint identifier is the  *)
(* table's entry for r{blocks}f{features}x{scale}, and no checkpoint (and  *)
(* no import) when the table has no such key. An import that ends in an    *)
(* unexpected-key error is the matter of C1 and C6 and is left out here.   *)
(***************************************************************************)
C3_BuildersReturn ==
    (/\ call.op \in {"make_encoder_baseline", "make_encoder_large"}
     /\ Supported(args.scale[1])
     /\ exc # "KeyError") =>
        /\ pc = "built"
        /\ obj = "Encoder"
        /\ args.pretrained_path =
              (LET key == url_name(args.n_resblocks, args.n_feats, args.scale[1])
               IN  IF key \in DOMAIN url THEN url[key] ELSE None)
        /\ args.pretrained_path = None => (~disk.known /\ own = Fresh)

(***************************************************************************)
(* C4. The network's out_dim attribute is the feature-channel count in     *)
(* feature-extractor mode and the color-channel count otherwise, and it is *)
(* the channel count of what the forward pass returns.                     *)
(***************************************************************************)
C4_OutDim ==
    (call.op = "forward" /\ exc = NoExc) =>
        /\ out_dim = IF args.no_upsampling THEN args.n_feats ELSE args.n_colors
        /\ out_dim = result.c

(***************************************************************************)
(* C5. After load_state_dict: if some checkpoint entry names a parameter   *)
(* of the network outside the tail stage with a different shape, the call  *)
(* raised; and when the call returned, every entry of equal shape was      *)
(* copied into the parameter of its name.                                  *)
(***************************************************************************)
C5_MismatchRaises ==
    IsLoad =>
        /\ (\E i \in 1..Len(Sd) :
                /\ Sd[i].name \in DOMAIN own
                /\ ~StartsWithTail(Sd[i].name)
                /\ Sd[i].t.shape # own[Sd[i].name].shape)
           => exc # NoExc
        /\ exc = NoExc =>
              \A i \in 1..Len(Sd) :
                  (Sd[i].name \in DOMAIN own /\ Sd[i].t.shape = own[Sd[i].name].shape)
                      => own[Sd[i].name] = Sd[i].t

(***************************************************************************)
(* C6 as stated. Under strict mode every checkpoint name that the network  *)
(* does not have and that does not start with the tail prefix makes        *)
(* load_state_dict raise.                                                  *)
(***************************************************************************)
C6_Original ==
    (IsLoad /\ call.strict
        /\ \E i \in 1..Len(Sd) :
              Sd[i].name \notin DOMAIN own /\ ~StartsWithTail(Sd[i].name))
    => exc # NoExc

(***************************************************************************)
(* C6 as amended. The tail stage is recognised by the substring "tail"     *)
(* anywhere in the name: under strict mode every checkpoint-only name      *)
(* without that substring makes load_state_dict raise; a checkpoint-only   *)
(* name with it is ignored; and the unexpected-key error is raised only    *)
(* under strict mode and only for a checkpoint-only name without it.       *)
(***************************************************************************)
C6_Amended ==
    IsLoad =>
        /\ (call.strict /\ \E i \in 1..Len(Sd) :
                Sd[i].name \notin DOMAIN own /\ ~ContainsTail(Sd[i].name))
           => exc # NoExc
        /\ exc = "KeyError" =>
              /\ call.strict
              /\ \E i \in 1..Len(Sd) :
                    Sd[i].name \notin DOMAIN own /\ ~ContainsTail(Sd[i].name)

\* a strict import that met a checkpoint-only name holding "tail" inside it,
\* not at its start, and returned
C6_Witness ==
    /\ IsLoad /\ call.strict /\ exc = NoExc
    /\ \E i \in 1..Len(Sd) :
          /\ Sd[i].name \notin DOMAIN own
          /\ ContainsTail(Sd[i].name) /\ ~StartsWithTail(Sd[i].name)

(***************************************************************************)
(* C7. An import of a checkpoint whose only irregularities are missing     *)
(* names and tail entries of another shape returns, leaves every parameter *)
(* the checkpoint does not name and every tail parameter of another shape  *)
(* as it was, and gives every other named parameter the checkpoint value.  *)
(***************************************************************************)
C7_Step ==
    (/\ call'.op = "load_state_dict"
     /\ \A i \in 1..Len(disk'.sd) :
           /\ disk'.sd[i].name \in DOMAIN own
           /\ \/ disk'.sd[i].t.shape = own[disk'.sd[i].name].shape
              \/ StartsWithTail(disk'.sd[i].name))
    => /\ exc' = NoExc
       /\ \A n \in DOMAIN own :
             LET hits == {i \in 1..Len(disk'.sd) : disk'.sd[i].name = n}
             IN  IF hits = {} THEN own'[n] = own[n]
                 ELSE \A i \in hits :
                        IF disk'.sd[i].t.shape # own[n].shape
                        THEN own'[n] = own[n]
                        ELSE own'[n] = disk'.sd[i].t

C7_Postcondition == [][C7_Step]_vars

(***************************************************************************)
(* C8 as stated. A scale that is neither a power of two nor 3 makes the    *)
(* construction of the Upsampler and of the core network raise, in either  *)
(* mode.                                                                   *)
(***************************************************************************)
C8_Original ==
    ((call.op = "Upsampler" \/ IsCtor) /\ ~Supported(args.scale[1])) => pc = "raised"

(***************************************************************************)
(* C8 as amended. The Upsampler raises exactly for the scales that are     *)
(* neither a power of two nor 3; the core network raises for them when it  *)
(* is not in feature-extractor mode, where it builds the Upsampler; in     *)
(* feature-extractor mode, and for the supported scales (2, 3, 4 and 8     *)
(* among them), construction raises no configuration error.                *)
(***************************************************************************)
C8_Amended ==
    /\ call.op = "Upsampler" => (pc = "raised" <=> ~Supported(args.scale[1]))
    /\ IsCtor =>
          IF ~args.no_upsampling /\ ~Supported(args.scale[1])
          THEN pc = "raised" /\ exc \in {"NotImplementedError", "ValueError"}
          ELSE exc \notin {"NotImplementedError", "ValueError"}
    /\ (IsCtor /\ args.pretrained_path = None /\ args.scale[1] \in {2, 3, 4, 8})
          => pc = "built"

\* a network built in feature-extractor mode from an unsupported scale
C8_Witness ==
    /\ IsCtor /\ pc = "built"
    /\ args.no_upsampling /\ ~Supported(args.scale[1])

(***************************************************************************)
(* C9. The forward pass accepts every image of n_colors channels and       *)
(* returns height and width multiplied by the scale when the network has a *)
(* tail, and unchanged in feature-extractor mode; the Upsampler holds      *)
(* log2(scale) doubling stages for a power of two and one tripling stage   *)
(* for scale 3.                                                            *)
(***************************************************************************)
C9_Spatial ==
    call.op = "forward" =>
        /\ exc = NoExc <=> call.x.c = args.n_colors
        /\ exc = NoExc =>
              LET f == IF args.no_upsampling THEN 1 ELSE args.scale[1]
              IN  result.h = f * call.x.h /\ result.w = f * call.x.w
        /\ ~args.no_upsampling =>
              LET m == TailUp(args).m
                  stages == {j \in 1..Len(m) : m[j].op = "shuffle"}
              IN  IF args.scale[1] = 3
                  THEN Cardinality(stages) = 1 /\ \A j \in stages : m[j].r = 3
                  ELSE /\ 2 ^ Cardinality(stages) = args.scale[1]
                       /\ \A j \in stages : m[j].r = 2

\* 48x48 to 96x96 at scale 2
C9_Witness ==
    /\ call.op = "forward" /\ exc = NoExc
    /\ ~args.no_upsampling /\ args.scale[1] = 2
    /\ call.x.h = 48 /\ call.x.w = 48
    /\ result.h = 96 /\ result.w = 96

(***************************************************************************)
(* C10. With a checkpoint identifier configured, a constructor whose       *)
(* import fails on a missing file or on a shape mismatch logs the reason   *)
(* and returns the network: every parameter named by an entry that came    *)
(* before the failing one and was copied holds the checkpoint value, every *)
(* other parameter its initial value.                                      *)
(***************************************************************************)
\* entry i of the checkpoint ends the import with a shape error
ShapeFailure(i) ==
    /\ Sd[i].name \in DOMAIN Fresh
    /\ ~Broadcastable(Sd[i].t.shape, Fresh[Sd[i].name].shape)
    /\ ~ContainsTail(Sd[i].name)

\* entry i of the checkpoint ends the strict import with a key error
KeyFailure(i) == Sd[i].name \notin DOMAIN Fresh /\ ~ContainsTail(Sd[i].name)

\* entry j of the checkpoint is copied into the parameter of its name
Copied(j) ==
    /\ Sd[j].name \in DOMAIN Fresh
    /\ Broadcastable(Sd[j].t.shape, Fresh[Sd[j].name].shape)

C10_FailedImport ==
    (IsCtor /\ args.pretrained_path # None /\ BuildExc(args) = NoExc) =>
        /\ ~disk.found =>
              /\ pc = "built" /\ exc = NoExc /\ log = "File not found"
              /\ own = Fresh
        /\ \A k \in 1..Len(Sd) :
              (ShapeFailure(k) /\ \A j \in 1..(k - 1) : ~ShapeFailure(j) /\ ~KeyFailure(j)) =>
                  /\ pc = "built" /\ exc = NoExc /\ log = "Error loading model"
                  /\ \A n \in DOMAIN Fresh :
                        LET before == {j \in 1..(k - 1) : Sd[j].name = n /\ Copied(j)}
                        IN  IF before = {} THEN own[n] = Fresh[n]
                            ELSE \A j \in before :
                                   own[n] = Tensor(Fresh[n].shape, Sd[j].t.val)
        /\ log = "Error loading model" => \E k \in 1..Len(Sd) : ShapeFailure(k)

\* a constructor that copied one entry, failed on the next, and returned
C10_Witness ==
    /\ IsCtor /\ pc = "built" /\ log = "Error loading model"
    /\ Len(Sd) = 2 /\ ShapeFailure(2) /\ Copied(1)
    /\ own[Sd[1].name].val = CkptVal
    /\ \A n \in DOMAIN own : n # Sd[1].name => own[n] = Fresh[n]

====
